---- MODULE Spec2Model ----
(***************************************************************************)
(* Model of scripts/clean_analysis.py: the coded-field parsing (splitting  *)
(* a ';'-separated annotation field into limitation codes), the code       *)
(* frequency count, the top-N selection and the co-occurrence matrix of    *)
(* analyze_limitation_cooccurrence, and the analyses of main that read the *)
(* same category columns before it: the specific codes, the comparisons by *)
(* setting and by region, the trends by year and the top-5 trends.         *)
(*                                                                         *)
(* A Python string is a sequence of one-character strings; a data-frame    *)
(* cell is a record [isna, str]; a dict is the sequence of its items in    *)
(* insertion order.                                                        *)
(***************************************************************************)
EXTENDS Integers, Sequences, FiniteSets, TLC

VARIABLES df, pc, col, idx, limitation_counts, top_10_limitations,
          cooccurrence_matrix, cooccurrence_pct, counted, added,
          Year_of_publication, Year, Study_setting, Region_clean,
          specific_limitations, facility_community, regional,
          contextual_trends, top_5_limitations, top5_trends, sort_memo

\* the columns of the data frame next to the category columns of df
frame == <<Year_of_publication, Year, Study_setting, Region_clean>>

\* what the analyses before the co-occurrence analysis return to main
results == <<specific_limitations, facility_community, regional,
             contextual_trends, top_5_limitations, top5_trends>>

vars == <<df, pc, col, idx, limitation_counts, top_10_limitations,
          cooccurrence_matrix, cooccurrence_pct, counted, added,
          frame, results, sort_memo>>

(***************************************************************************)
(* Bounds of the model.                                                    *)
(***************************************************************************)
\* number of limitation columns scanned (five in load_data)
NumCols == 2
\* largest number of records of the data frame
MaxRecords == 2
\* the N of head(N) (ten in analyze_limitation_cooccurrence)
TopN == 3
\* longest field string of the exhaustive parser inputs
MaxLen == 4
\* longest field string of the termination runs
LiveLen == 3
\* the N of head(N) of the top-5 trends (five in
\* analyze_top5_limitations_trends)
Top5N == 2

(***************************************************************************)
(* Strings.                                                                *)
(***************************************************************************)
Range(s) == {s[n] : n \in 1..Len(s)}

\* the characters str.strip() removes
Whitespace == {" "}

\* the characters of the exhaustive parser inputs
Alphabet == {"A", "B", ";", ":", " "}

RECURSIVE LStrip(_)
LStrip(s) == IF s # << >> /\ Head(s) \in Whitespace THEN LStrip(Tail(s)) ELSE s

RECURSIVE RStrip(_)
RStrip(s) ==
    IF s # << >> /\ s[Len(s)] \in Whitespace
    THEN RStrip(SubSeq(s, 1, Len(s) - 1))
    ELSE s

\* str.strip()
Strip(s) == RStrip(LStrip(s))

\* str.split(sep) for a one-character separator: the pieces between the
\* separators, empty pieces included; from[i] is the split of s[i..]: the
\* text up to the next separator, then the split of what follows it
Split(s, sep) ==
    LET from[i \in 1..(Len(s) + 1)] ==
            IF \A n \in i..Len(s) : s[n] # sep
            THEN <<SubSeq(s, i, Len(s))>>
            ELSE LET p == CHOOSE n \in i..Len(s) :
                              s[n] = sep /\ \A m \in i..(n - 1) : s[m] # sep
                 IN  <<SubSeq(s, i, p - 1)>> \o from[p + 1]
    IN  from[1]

(***************************************************************************)
(* Data-frame cells.                                                       *)
(***************************************************************************)
\* a missing cell (NaN)
NaN == [isna |-> TRUE, str |-> << >>]

\* a cell holding the string s
Text(s) == [isna |-> FALSE, str |-> s]

\* notna that takes every cell for a value
notna_Always(value) == TRUE

\* pd.notna(value)
notna(value) == ~value.isna

\* str(value)
Str(value) == IF value.isna THEN <<"n", "a", "n">> ELSE value.str

(***************************************************************************)
(* The code extraction.                                                    *)
(***************************************************************************)
\* codes with the pieces that are empty after strip() left out:
\* [code.strip() for code in str(value).split(';') if code.strip()]
codes_SkipEmpty(value) ==
    LET pieces == Split(Str(value), ";")
        solid(piece) == Strip(piece) # << >>
        kept == SelectSeq(pieces, solid)
    IN  [n \in 1..Len(kept) |-> Strip(kept[n])]

\* codes = [code.strip() for code in str(value).split(';')]
codes(value) ==
    LET pieces == Split(Str(value), ";")
    IN  [n \in 1..Len(pieces) |-> Strip(pieces[n])]

\* code_key with the text after the last ':' kept instead of the text before
\* the first
code_key_LastPart(code) ==
    IF ":" \in Range(code)
    THEN LET parts == Split(code, ":") IN Strip(parts[Len(parts)])
    ELSE Strip(code)

\* code_key without the split on ':'
code_key_WholePiece(code) == Strip(code)

\* code.split(':')[0].strip() if ':' in code else code.strip()
code_key(code) ==
    IF ":" \in Range(code) THEN Strip(Split(code, ":")[1]) ELSE Strip(code)

\* clean_codes with every code kept once, at its first place
clean_codes_Dedup(value) ==
    LET cs == codes(value)
        ks == [n \in 1..Len(cs) |-> code_key(cs[n])]
        firsts == {n \in 1..Len(ks) : \A m \in 1..(n - 1) : ks[m] # ks[n]}
        nth(k) == CHOOSE n \in firsts :
                      Cardinality({m \in firsts : m < n}) = k - 1
    IN  [k \in 1..Cardinality(firsts) |-> ks[nth(k)]]

\* clean_codes = [code_key for code in codes]
clean_codes(value) ==
    LET cs == codes(value)
    IN  [n \in 1..Len(cs) |-> code_key(cs[n])]

\* FieldCodes without the dropna / pd.notna test
FieldCodes_NoNaCheck(value) == clean_codes(value)

\* the tokens a cell yields: a missing cell is dropped (dropna) or skipped
\* (pd.notna) before it is parsed
FieldCodes(value) == IF notna(value) THEN clean_codes(value) ELSE << >>

(***************************************************************************)
(* The dict limitation_counts: items <<key, count>> in insertion order.    *)
(***************************************************************************)
Keys(d) == {d[n][1] : n \in 1..Len(d)}

Get(d, k) == LET n == CHOOSE m \in 1..Len(d) : d[m][1] = k IN d[n][2]

\* if code_key in limitation_counts: += 1 else: = 1
CountOne(d, k) ==
    IF k \in Keys(d)
    THEN [n \in 1..Len(d) |-> IF d[n][1] = k THEN <<k, d[n][2] + 1>> ELSE d[n]]
    ELSE Append(d, <<k, 1>>)

\* for code in codes: count code_key; after[k] is the dict after the first
\* k tokens (the dict after k - 1 tokens is bound to its value before the
\* k-th token is counted)
CountAll(d, toks) ==
    LET after[k \in 0..Len(toks)] ==
            IF k = 0 THEN d
            ELSE CHOOSE next \in {CountOne(prev, toks[k]) :
                                     prev \in {after[k - 1]}} : TRUE
    IN  after[Len(toks)]

(***************************************************************************)
(* Top-N selection: sort_values('Count', ascending=False).head(N).         *)
(***************************************************************************)
\* SortedOrders with ascending=True
SortedOrders_Ascending(d) ==
    {p \in [1..Len(d) -> 1..Len(d)] :
        /\ \A m, n \in 1..Len(d) : m # n => p[m] # p[n]
        /\ \A n \in 1..(Len(d) - 1) : d[p[n]][2] <= d[p[n + 1]][2]}

\* the row orders sort_values may return: rows in non-increasing order of
\* Count; the default sort kind is not stable, so rows of equal Count come
\* in any order
SortedOrders(d) ==
    {p \in [1..Len(d) -> 1..Len(d)] :
        /\ \A m, n \in 1..Len(d) : m # n => p[m] # p[n]
        /\ \A n \in 1..(Len(d) - 1) : d[p[n]][2] >= d[p[n + 1]][2]}

Min(a, b) == IF a < b THEN a ELSE b

\* head(N).index.tolist() of the rows in order p
HeadKeys(d, p, n) == [m \in 1..Min(n, Len(d)) |-> d[p[m]][1]]

\* the Count column that sort_values sorts by
CountColumn(d) == [n \in 1..Len(d) |-> d[n][2]]

\* the row orders a sort_values call may return when the orders in memo
\* were returned before: the sort is a function of the Count column, so a
\* column sorted before comes in the order it came in then
SortChoices(memo, d) ==
    IF \E m \in memo : m[1] = CountColumn(d)
    THEN {m[2] : m \in {n \in memo : n[1] = CountColumn(d)}}
    ELSE SortedOrders(d)

(***************************************************************************)
(* Co-occurrence of one field.                                             *)
(***************************************************************************)
\* present_limitations without the restriction to the top list
present_limitations_Unfiltered(top, toks) == toks

\* present_limitations built from the tokens instead of the top list:
\* [code for code in clean_codes if code in top_10_limitations]
present_limitations_PerToken(top, toks) ==
    LET in_top(code) == code \in Range(top) IN SelectSeq(toks, in_top)

\* present_limitations = [lim for lim in top_10_limitations if lim in clean_codes]
present_limitations(top, toks) ==
    LET in_codes(lim) == lim \in Range(toks) IN SelectSeq(top, in_codes)

\* PairIndexes with the inner loop over present[i:]
PairIndexes_WithSelf(present) ==
    {ij \in (1..Len(present)) \X (1..Len(present)) : ij[1] <= ij[2]}

\* the index pairs of: for i, lim1 in enumerate(present): for lim2 in present[i+1:]
PairIndexes(present) ==
    {ij \in (1..Len(present)) \X (1..Len(present)) : ij[1] < ij[2]}

\* Increments without the line .loc[lim2, lim1] += 1
Increments_OneWay(present, a, b) ==
    Cardinality({ij \in PairIndexes(present) :
                    present[ij[1]] = a /\ present[ij[2]] = b})

\* Increments with the inner loop over the whole of present_limitations
Increments_FullInner(present, a, b) ==
    Cardinality({ij \in (1..Len(present)) \X (1..Len(present)) :
                    present[ij[1]] = a /\ present[ij[2]] = b})
    + Cardinality({ij \in (1..Len(present)) \X (1..Len(present)) :
                    present[ij[2]] = a /\ present[ij[1]] = b})

\* how often the loops increment cell (a, b): once by .loc[lim1, lim2] += 1
\* and once by .loc[lim2, lim1] += 1
Increments(present, a, b) ==
    Cardinality({ij \in PairIndexes(present) :
                    present[ij[1]] = a /\ present[ij[2]] = b})
    + Cardinality({ij \in PairIndexes(present) :
                    present[ij[2]] = a /\ present[ij[1]] = b})

\* (count / total_studies) * 100 as the exact fraction num/den; den = 0 is
\* the float division by zero (nan or inf, no exception)
Pct(count, total) == [num |-> count * 100, den |-> total]

(***************************************************************************)
(* Inputs.                                                                 *)
(***************************************************************************)
\* the field values of the aggregation runs
FieldValues ==
    { NaN,
      Text(<<"B", ":", " ", "r">>),
      Text(<<"A", ";", "B", ";", "A", ";", "B">>),
      Text(<<"C", ";", " ", "A">>),
      Text(<<"B", ";", "C", ";">>) }

\* one record: a cell per limitation column
Records == [1..NumCols -> FieldValues]

\* the data frames of the aggregation runs
DataFrames == UNION {[1..n -> Records] : n \in 0..MaxRecords}

Cells(d) == (1..Len(d)) \X (1..NumCols)

\* a missing 'Year of publication'
NoYear == 0

\* the values of 'Year of publication', 'Study setting' and 'Region_clean'
\* of one record
Profiles ==
    { [year |-> 2014, setting |-> "Facility-based", region |-> "North"],
      [year |-> 2015, setting |-> "Community-based", region |-> "South"],
      [year |-> NoYear, setting |-> "Mixed", region |-> "Not specified"] }

\* the state in which main calls the analysis at start: the category
\* columns d, the other columns by the profiles a of the records, and line
\* 21 of load_data (df['Year'] = df['Year of publication'])
InitFrame(d, a, start) ==
    /\ df = d
    /\ pc = start
    /\ col = 1
    /\ idx = 1
    /\ limitation_counts = << >>
    /\ top_10_limitations = << >>
    /\ cooccurrence_matrix = << >>
    /\ cooccurrence_pct = << >>
    /\ counted = [rc \in Cells(d) |-> << >>]
    /\ added = [rc \in Cells(d) |-> << >>]
    /\ Year_of_publication = [r \in 1..Len(d) |-> a[r].year]
    /\ Year = [r \in 1..Len(d) |-> a[r].year]
    /\ Study_setting = [r \in 1..Len(d) |-> a[r].setting]
    /\ Region_clean = [r \in 1..Len(d) |-> a[r].region]
    /\ specific_limitations = << >>
    /\ facility_community = << >>
    /\ regional = << >>
    /\ contextual_trends = << >>
    /\ top_5_limitations = << >>
    /\ top5_trends = << >>
    /\ sort_memo = {}

\* the co-occurrence analysis alone, on records of one year, setting and
\* region (columns it does not read)
InitState(d) ==
    InitFrame(d, [r \in 1..Len(d) |->
                    [year |-> 2014, setting |-> "Facility-based",
                     region |-> "North"]], "count")

Init == \E d \in DataFrames : InitState(d)

\* the field "A: reason one; B: reason two"
ExampleField ==
    <<"A", ":", " ", "r", "e", "a", "s", "o", "n", " ", "o", "n", "e", ";",
      " ", "B", ":", " ", "r", "e", "a", "s", "o", "n", " ", "t", "w", "o">>

\* the field "A;B;A"
RepeatField == <<"A", ";", "B", ";", "A">>

\* the parser inputs: every non-empty string over Alphabet up to MaxLen
\* characters (an empty CSV cell is read as NaN), and the two examples
ParserInputs ==
    UNION {[1..n -> Alphabet] : n \in 1..MaxLen}
        \cup {ExampleField, RepeatField}

\* a one-record data frame: the string in the first column, the other
\* columns missing
OneField(s) ==
    <<[c \in 1..NumCols |-> IF c = 1 THEN Text(s) ELSE NaN]>>

InitExtract == \E s \in ParserInputs : InitState(OneField(s))

\* a data frame of n records whose category fields are all missing
AllMissing(n) == [r \in 1..n |-> [c \in 1..NumCols |-> NaN]]

\* the field strings of the termination runs: every non-empty string over
\* Alphabet up to LiveLen characters (no colon, only separators, only
\* whitespace among them), and the example
LiveInputs == UNION {[1..n -> Alphabet] : n \in 1..LiveLen} \cup {ExampleField}

\* one field string, the empty data frame and the all-missing data frames
InitLive ==
    \/ \E s \in LiveInputs : InitState(OneField(s))
    \/ \E n \in 0..MaxRecords : InitState(AllMissing(n))

(***************************************************************************)
(* Actions.                                                                *)
(***************************************************************************)
\* one iteration of the counting loops (lines 1082-1091; the same loops are
\* lines 134-143 and 1004-1013): the cell of row idx of column col
CountField ==
    /\ pc = "count"
    /\ col <= NumCols
    /\ idx <= Len(df)
    /\ LET toks == FieldCodes(df[idx][col])
       IN  /\ limitation_counts' = CountAll(limitation_counts, toks)
           /\ counted' = [counted EXCEPT ![<<idx, col>>] = toks]
    /\ idx' = idx + 1
    /\ UNCHANGED <<frame, results, sort_memo,
                   df, pc, col, top_10_limitations, cooccurrence_matrix,
                   cooccurrence_pct, added>>

\* the inner counting loop is exhausted: next column
CountNextCol ==
    /\ pc = "count"
    /\ col <= NumCols
    /\ idx > Len(df)
    /\ col' = col + 1
    /\ idx' = 1
    /\ UNCHANGED <<frame, results, sort_memo,
                   df, pc, limitation_counts, top_10_limitations,
                   cooccurrence_matrix, cooccurrence_pct, counted, added>>

\* lines 1093-1099: sort by Count, keep the first N keys, zero matrix
SelectTop ==
    /\ pc = "count"
    /\ col > NumCols
    /\ \E p \in SortChoices(sort_memo, limitation_counts) :
         LET top == HeadKeys(limitation_counts, p, TopN)
         IN  /\ top_10_limitations' = top
             /\ cooccurrence_matrix' = [cell \in Range(top) \X Range(top) |-> 0]
             /\ sort_memo' = sort_memo
                                \cup {<<CountColumn(limitation_counts), p>>}
    /\ pc' = "scan"
    /\ col' = 1
    /\ idx' = 1
    /\ UNCHANGED <<df, limitation_counts, cooccurrence_pct, counted, added,
                   frame, results>>

\* ScanField with a break after the first field that holds a pair: the
\* remaining rows of the column are skipped
ScanField_BreakAfterPair ==
    /\ pc = "scan"
    /\ col <= NumCols
    /\ idx <= Len(df)
    /\ LET present == present_limitations(top_10_limitations,
                                          FieldCodes(df[idx][col]))
       IN  /\ cooccurrence_matrix' =
                 [cell \in DOMAIN cooccurrence_matrix |->
                     cooccurrence_matrix[cell]
                     + Increments(present, cell[1], cell[2])]
           /\ added' = [added EXCEPT ![<<idx, col>>] =
                 [cell \in DOMAIN cooccurrence_matrix |->
                     Increments(present, cell[1], cell[2])]]
           /\ idx' = IF Len(present) >= 2 THEN Len(df) + 1 ELSE idx + 1
    /\ UNCHANGED <<frame, results, sort_memo,
                   df, pc, col, limitation_counts, top_10_limitations,
                   cooccurrence_pct, counted>>

\* one iteration of the co-occurrence loops (lines 1101-1111)
ScanField ==
    /\ pc = "scan"
    /\ col <= NumCols
    /\ idx <= Len(df)
    /\ LET present == present_limitations(top_10_limitations,
                                          FieldCodes(df[idx][col]))
       IN  IF Range(present) \subseteq Range(top_10_limitations)
           THEN /\ cooccurrence_matrix' =
                      [cell \in DOMAIN cooccurrence_matrix |->
                          cooccurrence_matrix[cell]
                          + Increments(present, cell[1], cell[2])]
                /\ added' = [added EXCEPT ![<<idx, col>>] =
                      [cell \in DOMAIN cooccurrence_matrix |->
                          Increments(present, cell[1], cell[2])]]
                /\ idx' = idx + 1
                /\ pc' = pc
           \* .loc[lim1, lim2] of a label that is not in the index: KeyError
           ELSE /\ pc' = "error"
                /\ UNCHANGED <<cooccurrence_matrix, added, idx>>
    /\ UNCHANGED <<frame, results, sort_memo,
                   df, col, limitation_counts, top_10_limitations,
                   cooccurrence_pct, counted>>

\* the inner co-occurrence loop is exhausted: next column
ScanNextCol ==
    /\ pc = "scan"
    /\ col <= NumCols
    /\ idx > Len(df)
    /\ col' = col + 1
    /\ idx' = 1
    /\ UNCHANGED <<frame, results, sort_memo,
                   df, pc, limitation_counts, top_10_limitations,
                   cooccurrence_matrix, cooccurrence_pct, counted, added>>

\* ComputePct with a Python division, which raises ZeroDivisionError for
\* an empty data frame
ComputePct_ZeroDivision ==
    /\ pc = "scan"
    /\ col > NumCols
    /\ IF Len(df) = 0
       THEN /\ pc' = "error"
            /\ cooccurrence_pct' = cooccurrence_pct
       ELSE /\ pc' = "done"
            /\ cooccurrence_pct' =
                  [cell \in DOMAIN cooccurrence_matrix |->
                      Pct(cooccurrence_matrix[cell], Len(df))]
    /\ UNCHANGED <<frame, results, sort_memo,
                   df, col, idx, limitation_counts, top_10_limitations,
                   cooccurrence_matrix, counted, added>>

\* lines 1115-1116: the percentage matrix
ComputePct ==
    /\ pc = "scan"
    /\ col > NumCols
    /\ LET total_studies == Len(df)
       IN  cooccurrence_pct' =
             [cell \in DOMAIN cooccurrence_matrix |->
                 Pct(cooccurrence_matrix[cell], total_studies)]
    /\ pc' = "done"
    /\ UNCHANGED <<frame, results, sort_memo,
                   df, col, idx, limitation_counts, top_10_limitations,
                   cooccurrence_matrix, counted, added>>

Next ==
    \/ CountField
    \/ CountNextCol
    \/ SelectTop
    \/ ScanField
    \/ ScanNextCol
    \/ ComputePct

Spec == Init /\ [][Next]_vars

\* the same program run on every parser input
SpecExtract == InitExtract /\ [][Next]_vars

\* the script is one sequential computation: a step that can be taken is
\* taken
SpecLive == InitLive /\ [][Next]_vars /\ WF_vars(Next)

(***************************************************************************)
(* The loops as functions of the data frame.                               *)
(***************************************************************************)
\* the k-th cell <<row, column>> in the order of the loops: column by
\* column, the rows of a column in order
LoopCell(d, k) == <<((k - 1) % Len(d)) + 1, ((k - 1) \div Len(d)) + 1>>

\* limitation_counts after the first k cells of data frame d
RECURSIVE CountsUpTo(_, _)
CountsUpTo(d, k) ==
    IF k = 0 THEN << >>
    ELSE CountAll(CountsUpTo(d, k - 1),
                  FieldCodes(d[LoopCell(d, k)[1]][LoopCell(d, k)[2]]))

\* limitation_counts after the counting loops over data frame d
CountsOf(d) == CountsUpTo(d, Len(d) * NumCols)

\* the top lists the selection may return for data frame d
TopListsOf(d) ==
    {HeadKeys(CountsOf(d), p, TopN) : p \in SortedOrders(CountsOf(d))}

\* what the first k cells of data frame d add to cell (a, b)
RECURSIVE CellUpTo(_, _, _, _, _)
CellUpTo(d, top, k, a, b) ==
    IF k = 0 THEN 0
    ELSE CellUpTo(d, top, k - 1, a, b)
         + Increments(present_limitations(top,
               FieldCodes(d[LoopCell(d, k)[1]][LoopCell(d, k)[2]])), a, b)

\* cooccurrence_matrix after the co-occurrence loops over data frame d
MatrixOf(d, top) ==
    [cell \in Range(top) \X Range(top) |->
        CellUpTo(d, top, Len(d) * NumCols, cell[1], cell[2])]

(***************************************************************************)
(* The analyses main runs before the co-occurrence analysis.               *)
(***************************************************************************)
\* the records of a column that hold value v (df[df[column] == v])
RowsWhere(column, v) == {r \in 1..Len(column) : column[r] = v}

\* the True rows of frame[columns].notna().all(axis=1)
notna_any_AllColumns(d, rows, columns) ==
    {r \in rows : \A c \in columns : notna(d[r][c])}

\* the True rows of frame[columns].notna().any(axis=1)
notna_any(d, rows, columns) ==
    {r \in rows : \E c \in columns : notna(d[r][c])}

\* '-- CONTEXT & LOGISTICS --' and '-- RESEARCH CAPACITY --': the third and
\* the last of the limitation columns
contextual_columns == {c \in 1..NumCols : c = 3 \/ c = NumCols}

\* the other limitation columns
methodological_columns == (1..NumCols) \ contextual_columns

\* one entry of comparison_data; the three row sets are the boolean series
\* the counts are the sums of
ComparisonEntry(d, name, rows) ==
    LET methodological == notna_any(d, rows, methodological_columns)
        contextual == notna_any(d, rows, contextual_columns)
        total == notna_any(d, rows, 1..NumCols)
    IN  [Setting |-> name,
         Methodological_Percentage |->
             Pct(Cardinality(methodological), Cardinality(rows)),
         Contextual_Percentage |->
             Pct(Cardinality(contextual), Cardinality(rows)),
         Total_Percentage |-> Pct(Cardinality(total), Cardinality(rows)),
         Methodological_Count |-> Cardinality(methodological),
         Contextual_Count |-> Cardinality(contextual),
         Total_Count |-> Cardinality(total),
         methodological_rows |-> methodological,
         contextual_rows |-> contextual,
         total_rows |-> total]

\* pd.to_numeric(..., errors='coerce') of a year cell: a number stays, a
\* missing cell stays missing
to_numeric(v) == IF v = NoYear THEN NoYear ELSE v

\* sorted(...) of a set of numbers
Sorted(S) ==
    CHOOSE s \in [1..Cardinality(S) -> S] :
        \A m, n \in 1..Cardinality(S) : m < n => s[m] < s[n]

\* sorted(column.dropna().unique())
SortedYears(column) ==
    Sorted({column[r] : r \in 1..Len(column)} \ {NoYear})

\* pat occurs in s
Contains(s, pat) ==
    \E n \in 1..(Len(s) - Len(pat) + 1) :
        SubSeq(s, n, n + Len(pat) - 1) = pat

\* one element of column.str.contains(pat, na=False)
str_contains(value, pat) == notna(value) /\ Contains(Str(value), pat)

\* column c has the .str accessor: a column read without any string is a
\* float column, and .str raises AttributeError on it
HasStrAccessor(d, c) == Len(d) = 0 \/ \E r \in 1..Len(d) : notna(d[r][c])

\* the contextual limitations tracked, in the code alphabet of the model
contextual_limitations == << <<"A">>, <<"B">> >>

\* the k-th entry of trend_data: the limitations in order, the years of a
\* limitation in order
TrendEntry(d, years, k) ==
    LET limitation == contextual_limitations[((k - 1) \div Len(years)) + 1]
        year == years[((k - 1) % Len(years)) + 1]
        year_data == RowsWhere(Year_of_publication, year)
        total_studies == Cardinality(year_data)
        count == Cardinality({rc \in year_data \X (1..NumCols) :
                                 str_contains(d[rc[1]][rc[2]], limitation)})
    IN  [Year |-> year,
         Limitation |-> limitation,
         Percentage |-> Pct(count, total_studies),
         Count |-> count,
         Total |-> total_studies]

\* the sum of a field over the entries of a list that satisfy a test
RECURSIVE SumCount(_, _, _)
SumCount(entries, limitation, k) ==
    IF k = 0 THEN 0
    ELSE SumCount(entries, limitation, k - 1)
         + (IF entries[k].Limitation = limitation THEN entries[k].Count ELSE 0)

\* the count of limitation in the records year_studies of the top-5 trends:
\* the loop over the records of a column ends at the first record whose
\* codes hold the limitation, so each column adds at most one
Top5Count(d, year_studies, limitation) ==
    Cardinality({c \in 1..NumCols :
        \E r \in year_studies : limitation \in Range(FieldCodes(d[r][c]))})

\* analysis 2, analyze_specific_limitations (lines 128-152)
analyze_specific_limitations ==
    /\ pc = "specific_limitations"
    /\ LET counts == CountsOf(df)
       IN  \E p \in SortChoices(sort_memo, counts) :
             /\ specific_limitations' =
                   [limitation_counts |-> counts,
                    index |-> HeadKeys(counts, p, Len(counts)),
                    Percentage |-> [n \in 1..Len(counts) |->
                                       Pct(counts[n][2], Len(df))]]
             /\ sort_memo' = sort_memo \cup {<<CountColumn(counts), p>>}
    /\ pc' = "facility_community"
    /\ UNCHANGED <<df, col, idx, limitation_counts, top_10_limitations,
                   cooccurrence_matrix, cooccurrence_pct, counted, added,
                   frame, facility_community, regional, contextual_trends,
                   top_5_limitations, top5_trends>>

\* analysis 3, analyze_facility_vs_community (lines 154-205)
analyze_facility_vs_community ==
    /\ pc = "facility_community"
    /\ facility_community' =
          << ComparisonEntry(df, "Facility",
                 RowsWhere(Study_setting, "Facility-based")),
             ComparisonEntry(df, "Community",
                 RowsWhere(Study_setting, "Community-based")) >>
    /\ pc' = "regional"
    /\ UNCHANGED <<df, col, idx, limitation_counts, top_10_limitations,
                   cooccurrence_matrix, cooccurrence_pct, counted, added,
                   frame, specific_limitations, regional, contextual_trends,
                   top_5_limitations, top5_trends, sort_memo>>

\* analysis 4, analyze_regional_comparison (lines 249-296)
analyze_regional_comparison ==
    /\ pc = "regional"
    /\ regional' =
          << ComparisonEntry(df, "North", RowsWhere(Region_clean, "North")),
             ComparisonEntry(df, "South", RowsWhere(Region_clean, "South")) >>
    /\ pc' = "trends"
    /\ UNCHANGED <<df, col, idx, limitation_counts, top_10_limitations,
                   cooccurrence_matrix, cooccurrence_pct, counted, added,
                   frame, specific_limitations, facility_community,
                   contextual_trends, top_5_limitations, top5_trends,
                   sort_memo>>

\* analysis 5, analyze_trends_over_time (lines 340-367): it writes the
\* 'Year' column of the frame of main, drops the records without a year
\* from its own copy only, and selecting the columns of a trends_df built
\* from no entry raises KeyError; its trends_df is read by no later analysis
analyze_trends_over_time ==
    /\ pc = "trends"
    /\ Year' = [r \in 1..Len(df) |-> to_numeric(Year_of_publication[r])]
    /\ pc' = IF SortedYears(Year') = << >> THEN "error" ELSE "contextual_trends"
    /\ UNCHANGED <<df, col, idx, limitation_counts, top_10_limitations,
                   cooccurrence_matrix, cooccurrence_pct, counted, added,
                   Year_of_publication, Study_setting, Region_clean,
                   results, sort_memo>>

\* analysis 6, analyze_contextual_limitations_trends (lines 395-459)
analyze_contextual_limitations_trends ==
    /\ pc = "contextual_trends"
    /\ LET years == SortedYears(Year_of_publication)
           trend_data ==
               [k \in 1..(Len(contextual_limitations) * Len(years)) |->
                   TrendEntry(df, years, k)]
       IN  IF /\ years # << >>
              /\ \A c \in 1..NumCols : HasStrAccessor(df, c)
           THEN /\ contextual_trends' =
                      [trend_data |-> trend_data,
                       total_count |->
                           [n \in 1..Len(contextual_limitations) |->
                               SumCount(trend_data, contextual_limitations[n],
                                        Len(trend_data))],
                       overall_pct |->
                           [n \in 1..Len(contextual_limitations) |->
                               Pct(SumCount(trend_data,
                                       contextual_limitations[n],
                                       Len(trend_data)), Len(df))]]
                /\ pc' = "top5_trends"
           \* .str of a float column: AttributeError; trend_df['Limitation']
           \* of a trend_df built from no entry: KeyError
           ELSE /\ pc' = "error"
                /\ UNCHANGED contextual_trends
    /\ UNCHANGED <<df, col, idx, limitation_counts, top_10_limitations,
                   cooccurrence_matrix, cooccurrence_pct, counted, added,
                   frame, specific_limitations, facility_community, regional,
                   top_5_limitations, top5_trends, sort_memo>>

\* analyze_top5_limitations_trends with the records without a year dropped
\* from the frame of main
analyze_top5_limitations_trends_DropInPlace ==
    /\ pc = "top5_trends"
    /\ LET counts == CountsOf(df)
           kept == Sorted({r \in 1..Len(df) :
                              to_numeric(Year_of_publication[r]) # NoYear})
       IN  /\ \E p \in SortChoices(sort_memo, counts) :
                /\ top_5_limitations' = HeadKeys(counts, p, Top5N)
                /\ sort_memo' = sort_memo \cup {<<CountColumn(counts), p>>}
           /\ df' = [n \in 1..Len(kept) |-> df[kept[n]]]
           /\ Year_of_publication' =
                 [n \in 1..Len(kept) |-> Year_of_publication[kept[n]]]
           /\ Year' = [n \in 1..Len(kept) |-> Year_of_publication[kept[n]]]
           /\ Study_setting' = [n \in 1..Len(kept) |-> Study_setting[kept[n]]]
           /\ Region_clean' = [n \in 1..Len(kept) |-> Region_clean[kept[n]]]
           /\ top5_trends' = [limitation_counts |-> counts, trends_data |-> << >>]
    /\ pc' = "count"
    /\ UNCHANGED <<col, idx, limitation_counts, top_10_limitations,
                   cooccurrence_matrix, cooccurrence_pct, counted, added,
                   specific_limitations, facility_community, regional,
                   contextual_trends>>

\* analysis 12, analyze_top5_limitations_trends (lines 999-1052): the 'Year'
\* column of the frame of main is overwritten, the records without a year
\* are dropped from the function's own copy
analyze_top5_limitations_trends ==
    /\ pc = "top5_trends"
    /\ LET counts == CountsOf(df)
           numeric == [r \in 1..Len(df) |-> to_numeric(Year_of_publication[r])]
           years == SortedYears(numeric)
       IN  /\ Year' = numeric
           /\ \E p \in SortChoices(sort_memo, counts) :
                LET top == HeadKeys(counts, p, Top5N)
                IN  /\ top_5_limitations' = top
                    /\ sort_memo' = sort_memo
                                       \cup {<<CountColumn(counts), p>>}
                    /\ top5_trends' =
                          [limitation_counts |-> counts,
                           trends_data |->
                              [k \in 1..Len(years) |->
                                 LET year_studies ==
                                         RowsWhere(numeric, years[k])
                                 IN  [Year |-> years[k],
                                      Total_Studies |->
                                          Cardinality(year_studies),
                                      Percentage |->
                                          [limitation \in Range(top) |->
                                              Pct(Top5Count(df, year_studies,
                                                      limitation),
                                                  Cardinality(year_studies))]]]]
    /\ pc' = "count"
    /\ UNCHANGED <<df, col, idx, limitation_counts, top_10_limitations,
                   cooccurrence_matrix, cooccurrence_pct, counted, added,
                   Year_of_publication, Study_setting, Region_clean,
                   specific_limitations, facility_community, regional,
                   contextual_trends>>

\* the field values of the runs of main
MainFieldValues ==
    { NaN,
      Text(<<"B", ":", " ", "r">>),
      Text(<<"C", ";", " ", "A">>) }

\* the data frames of the runs of main
MainFrames ==
    UNION {[1..n -> [1..NumCols -> MainFieldValues]] : n \in 0..MaxRecords}

\* main before its first analysis of the category codes
InitMain ==
    \E d \in MainFrames : \E a \in [1..Len(d) -> Profiles] :
        InitFrame(d, a, "specific_limitations")

\* main (lines 1173-1228): the analyses in the order of the calls, the
\* co-occurrence analysis last
NextMain ==
    \/ analyze_specific_limitations
    \/ analyze_facility_vs_community
    \/ analyze_regional_comparison
    \/ analyze_trends_over_time
    \/ analyze_contextual_limitations_trends
    \/ analyze_top5_limitations_trends
    \/ Next

SpecMain == InitMain /\ [][NextMain]_vars

(***************************************************************************)
(* Vocabulary of the properties.                                           *)
(***************************************************************************)
\* the cell of row r, column c has been through the counting loop
Counted(r, c) == pc # "count" \/ c < col \/ (c = col /\ r < idx)

\* the cell of row r, column c has been through the co-occurrence loop
Scanned(r, c) == pc = "done" \/ (pc = "scan" /\ (c < col \/ (c = col /\ r < idx)))

\* the codes of the top-N list
TopSet == Range(top_10_limitations)

\* the codes present in record r across all category fields
RecordCodes(r) == UNION {Range(FieldCodes(df[r][c])) : c \in 1..NumCols}

\* the distinct top-N codes of record r
Qualifying(r) == RecordCodes(r) \cap TopSet

\* the records in which both i and j appear
RecordsWithBoth(i, j) ==
    {r \in 1..Len(df) : i \in RecordCodes(r) /\ j \in RecordCodes(r)}

\* what the field of row r, column c has added to a matrix cell
FieldAdded(r, c, cell) ==
    IF cell \in DOMAIN added[<<r, c>>] THEN added[<<r, c>>][cell] ELSE 0

RECURSIVE RecordAddedUpTo(_, _, _)
RecordAddedUpTo(r, c, cell) ==
    IF c = 0 THEN 0 ELSE FieldAdded(r, c, cell) + RecordAddedUpTo(r, c - 1, cell)

\* what record r has added to a matrix cell, over all its fields
RecordAdded(r, cell) == RecordAddedUpTo(r, NumCols, cell)

\* how often token k occurs in the token list toks
Occurrences(toks, k) == Cardinality({n \in 1..Len(toks) : toks[n] = k})

RECURSIVE SumCells(_)
SumCells(cells) ==
    IF cells = {} THEN 0
    ELSE LET cell == CHOOSE x \in cells : TRUE
         IN  cooccurrence_matrix[cell] + SumCells(cells \ {cell})

\* the sum of the off-diagonal entries of the matrix
OffDiagonalSum ==
    SumCells({cell \in DOMAIN cooccurrence_matrix : cell[1] # cell[2]})

\* the positions of the ';' of s, and the n-th of them
SemiPositions(s) == {p \in 1..Len(s) : s[p] = ";"}

NthSemi(s, n) ==
    CHOOSE p \in SemiPositions(s) :
        Cardinality({q \in SemiPositions(s) : q < p}) = n - 1

\* the n-th piece of s is s[PieceFirst .. PieceLast]
PieceFirst(s, n) == IF n = 1 THEN 1 ELSE NthSemi(s, n - 1) + 1

PieceLast(s, n) ==
    IF n = Cardinality(SemiPositions(s)) + 1 THEN Len(s) ELSE NthSemi(s, n) - 1

\* the code of the n-th piece: the text before the first ':' of the piece
\* (the whole piece when it has none), without surrounding whitespace
CodeOfPiece(s, n) ==
    LET first  == PieceFirst(s, n)
        last   == PieceLast(s, n)
        colons == {p \in first..last : s[p] = ":"}
        stop   == IF colons = {} THEN last
                  ELSE (CHOOSE p \in colons : \A q \in colons : p <= q) - 1
        solid  == {p \in first..stop : s[p] \notin Whitespace}
    IN  IF solid = {} THEN << >>
        ELSE SubSeq(s, CHOOSE p \in solid : \A q \in solid : p <= q,
                       CHOOSE p \in solid : \A q \in solid : p >= q)

(***************************************************************************)
(* Properties.                                                             *)
(***************************************************************************)
\* C1: after the aggregation, for every two distinct top-N codes i and j
\* the cell (i,j) is the number of records in which both i and j appear in
\* any of the category fields.
C1_CellCountsRecordsWithBoth ==
    pc = "done" =>
        \A i, j \in TopSet :
            i # j => cooccurrence_matrix[<<i, j>>]
                        = Cardinality(RecordsWithBoth(i, j))

\* C2: a single record raises any matrix cell by at most one, also when the
\* pair appears together in several category fields of the record.
C2_RecordAddsAtMostOne ==
    \A r \in 1..Len(df) :
        \A cell \in DOMAIN cooccurrence_matrix : RecordAdded(r, cell) <= 1

\* C3: a record whose deduplicated set of top-N codes across all its fields
\* is S raises (i,j) and (j,i) by exactly one for every two distinct codes
\* of S and leaves every other cell unchanged.
C3_RecordAddsExactlyItsPairs ==
    pc = "done" =>
        \A r \in 1..Len(df) :
            \A cell \in DOMAIN cooccurrence_matrix :
                RecordAdded(r, cell) =
                    IF /\ cell[1] # cell[2]
                       /\ cell[1] \in Qualifying(r)
                       /\ cell[2] \in Qualifying(r)
                    THEN 1 ELSE 0

\* C4: the matrix is symmetric after any prefix of the records and fields
\* has been processed.
C4_MatrixSymmetric ==
    \A i, j \in TopSet :
        cooccurrence_matrix[<<i, j>>] = cooccurrence_matrix[<<j, i>>]

\* C4 witness: part of the fields scanned, some cell already raised
C4_Witness ==
    /\ pc = "scan"
    /\ col <= NumCols
    /\ \E cell \in DOMAIN cooccurrence_matrix : cooccurrence_matrix[cell] > 0

\* C5: a record with zero or exactly one qualifying top-N code across all
\* its fields leaves every matrix cell unchanged.
C5_FewCodesAddNothing ==
    pc \in {"scan", "done"} =>
        \A r \in 1..Len(df) :
            Cardinality(Qualifying(r)) <= 1 =>
                \A cell \in DOMAIN cooccurrence_matrix : RecordAdded(r, cell) = 0

\* C5 witness: the aggregation is over, one record has exactly one
\* qualifying code (in a non-missing field) and another record has raised
\* the matrix
C5_Witness ==
    /\ pc = "done"
    /\ \E r \in 1..Len(df) : Cardinality(Qualifying(r)) = 1
    /\ \E cell \in DOMAIN cooccurrence_matrix : cooccurrence_matrix[cell] > 0

\* C6: a field in which a pair of top-N codes appears several times raises
\* the two cells of the pair by exactly one.
C6_RepeatedPairAddsOne ==
    \A r \in 1..Len(df) : \A c \in 1..NumCols :
        Scanned(r, c) =>
            \A i, j \in TopSet :
                (/\ i # j
                 /\ Occurrences(counted[<<r, c>>], i) >= 2
                 /\ Occurrences(counted[<<r, c>>], j) >= 2)
                => /\ FieldAdded(r, c, <<i, j>>) = 1
                   /\ FieldAdded(r, c, <<j, i>>) = 1

\* C6 witness: a scanned field whose extracted tokens hold two top-N codes
\* twice each
C6_Witness ==
    \E r \in 1..Len(df) : \E c \in 1..NumCols :
        /\ Scanned(r, c)
        /\ \E i, j \in TopSet :
              /\ i # j
              /\ Occurrences(counted[<<r, c>>], i) >= 2
              /\ Occurrences(counted[<<r, c>>], j) >= 2

\* C7: after the aggregation the sum of the off-diagonal entries divided by
\* 2 is at most (record count) x C(N,2), N the number of codes indexing the
\* matrix; with C(N,2) = N(N-1)/2 both sides are doubled.
C7_OffDiagonalBound ==
    pc = "done" =>
        OffDiagonalSum
            <= Len(df) * Len(top_10_limitations) * (Len(top_10_limitations) - 1)

\* C8: the count of each code is the number of records that contain the
\* code at least once across all category fields, so no count exceeds the
\* number of records.
C8_CountIsRecordsContaining ==
    pc # "count" =>
        \A k \in Keys(limitation_counts) :
            /\ Get(limitation_counts, k)
                  = Cardinality({r \in 1..Len(df) : k \in RecordCodes(r)})
            /\ Get(limitation_counts, k) <= Len(df)

\* C9: a non-missing field of k pieces separated by ';' yields exactly k
\* tokens in source order, the n-th token being the code of the n-th
\* piece; "A: reason one; B: reason two" yields ["A", "B"].
C9_TokenPerPiece ==
    \A r \in 1..Len(df) : \A c \in 1..NumCols :
        (Counted(r, c) /\ notna(df[r][c])) =>
            LET s    == df[r][c].str
                toks == counted[<<r, c>>]
            IN  /\ Len(toks) = Cardinality(SemiPositions(s)) + 1
                /\ \A n \in 1..Len(toks) : toks[n] = CodeOfPiece(s, n)
                /\ s = ExampleField => toks = << <<"A">>, <<"B">> >>

\* C9 witness: the example field has been extracted, with its two tokens
\* counted
C9_Witness ==
    /\ pc = "done"
    /\ df[1][1] = Text(ExampleField)
    /\ Len(counted[<<1, 1>>]) = 2
    /\ Keys(limitation_counts) = {<<"A">>, <<"B">>}

\* C10: a missing field yields no tokens: it adds nothing to any code's
\* frequency count and nothing to any matrix cell.
C10_MissingFieldYieldsNothing ==
    \A r \in 1..Len(df) : \A c \in 1..NumCols :
        df[r][c].isna =>
            /\ counted[<<r, c>>] = << >>
            /\ \A cell \in DOMAIN cooccurrence_matrix : FieldAdded(r, c, cell) = 0
            /\ Scanned(r, c) => added[<<r, c>>] = [cell \in DOMAIN cooccurrence_matrix |-> 0]

\* C10 witness: the aggregation is over for a data frame with a missing
\* field next to fields that raised the matrix
C10_Witness ==
    /\ pc = "done"
    /\ \E r \in 1..Len(df) : \E c \in 1..NumCols : df[r][c].isna
    /\ \E cell \in DOMAIN cooccurrence_matrix : cooccurrence_matrix[cell] > 0

\* the number of pieces of s
NumPieces(s) == Cardinality(SemiPositions(s)) + 1

\* the n-th piece of s, untrimmed
Piece(s, n) == SubSeq(s, PieceFirst(s, n), PieceLast(s, n))

\* the text of piece before its first ':' (the piece has one)
BeforeFirstColon(piece) ==
    LET p == CHOOSE n \in 1..Len(piece) :
                 piece[n] = ":" /\ \A m \in 1..(n - 1) : piece[m] # ":"
    IN  SubSeq(piece, 1, p - 1)

\* C11: extraction does not deduplicate: a code occurs among the tokens of
\* a field as often as it is the code of a piece of the field, and "A;B;A"
\* yields ["A", "B", "A"].
C11_NoDedupAtExtraction ==
    \A r \in 1..Len(df) : \A c \in 1..NumCols :
        (Counted(r, c) /\ notna(df[r][c])) =>
            LET s    == df[r][c].str
                toks == counted[<<r, c>>]
                ks   == {CodeOfPiece(s, n) : n \in 1..NumPieces(s)}
            IN  /\ \A k \in ks \cup Range(toks) :
                      Occurrences(toks, k)
                        = Cardinality({n \in 1..NumPieces(s) :
                                          CodeOfPiece(s, n) = k})
                /\ s = RepeatField =>
                      toks = << <<"A">>, <<"B">>, <<"A">> >>

\* C11 witness: "A;B;A" has been extracted and A counted twice
C11_Witness ==
    /\ pc = "done"
    /\ df[1][1] = Text(RepeatField)
    /\ Len(counted[<<1, 1>>]) = 3
    /\ Get(limitation_counts, <<"A">>) = 2

\* C12: the code of a piece is the text before its first ':' without
\* surrounding whitespace, also when the piece has several colons; without
\* a ':' it is the whole trimmed piece.
C12_CodeIsTextBeforeFirstColon ==
    \A r \in 1..Len(df) : \A c \in 1..NumCols :
        (Counted(r, c) /\ notna(df[r][c])) =>
            LET s    == df[r][c].str
                toks == counted[<<r, c>>]
            IN  \A n \in 1..NumPieces(s) :
                    /\ n <= Len(toks)
                    /\ ":" \notin Range(toks[n])
                    /\ toks[n] = IF ":" \in Range(Piece(s, n))
                                 THEN Strip(BeforeFirstColon(Piece(s, n)))
                                 ELSE Strip(Piece(s, n))

\* C12 witness: a counted piece with two colons whose code is the text
\* before the first of them
C12_Witness ==
    /\ Counted(1, 1)
    /\ notna(df[1][1])
    /\ Cardinality({p \in 1..Len(df[1][1].str) : df[1][1].str[p] = ":"}) >= 2
    /\ NumPieces(df[1][1].str) = 1
    /\ counted[<<1, 1>>] = << <<"A">> >>

\* C13: a piece that is empty after trimming (a whitespace-only field, an
\* empty field, the piece after a trailing ';') yields one empty-string
\* token, and a piece that starts with ':' yields the empty code.
C13_EmptyPieceYieldsEmptyToken ==
    /\ clean_codes(Text(<< >>)) = << << >> >>
    /\ \A r \in 1..Len(df) : \A c \in 1..NumCols :
          (Counted(r, c) /\ notna(df[r][c])) =>
              LET s    == df[r][c].str
                  toks == counted[<<r, c>>]
              IN  /\ Len(toks) = NumPieces(s)
                  /\ \A n \in 1..NumPieces(s) :
                        LET piece == Strip(Piece(s, n))
                        IN  (piece = << >> \/ Head(piece) = ":")
                                => toks[n] = << >>

\* C13 witness: a counted field with a trailing ';' whose last token is the
\* empty string, counted under the empty key
C13_Witness ==
    /\ Counted(1, 1)
    /\ notna(df[1][1])
    /\ df[1][1].str[Len(df[1][1].str)] = ";"
    /\ counted[<<1, 1>>][Len(counted[<<1, 1>>])] = << >>
    /\ << >> \in Keys(limitation_counts)

\* every code of the data frame
AllCodes == UNION {RecordCodes(r) : r \in 1..Len(df)}

\* the place of key k in a sequence of distinct keys
PlaceIn(seq, k) == CHOOSE n \in 1..Len(seq) : seq[n] = k

\* the records of d with at least one category field that is not missing
WithoutMissing(d) ==
    LET reported(rec) == \E c \in 1..NumCols : ~rec[c].isna
    IN  SelectSeq(d, reported)

\* C14: the empty-string token is discarded as "no code": it is never a
\* key of the frequency table, never in the top-N list and never an index
\* of the matrix.
C14_EmptyCodeDiscarded ==
    /\ << >> \notin Keys(limitation_counts)
    /\ << >> \notin TopSet
    /\ \A cell \in DOMAIN cooccurrence_matrix :
          cell[1] # << >> /\ cell[2] # << >>

\* C15: the top-N list holds min(N, number of distinct codes) pairwise
\* distinct codes; no code outside it has a strictly greater count than a
\* code inside it; the list is in non-increasing order of count.
C15_TopListByFrequency ==
    pc # "count" =>
        LET top == top_10_limitations
            cnt(k) == Get(limitation_counts, k)
        IN  /\ Len(top) = Min(TopN, Cardinality(AllCodes))
            /\ \A m, n \in 1..Len(top) : m # n => top[m] # top[n]
            /\ TopSet \subseteq AllCodes
            /\ \A k \in AllCodes \ TopSet : \A t \in TopSet : cnt(k) <= cnt(t)
            /\ \A n \in 1..(Len(top) - 1) : cnt(top[n]) >= cnt(top[n + 1])

\* C15 witness: more codes than places, a code left out with a strictly
\* smaller count than a selected one
C15_Witness ==
    /\ pc = "scan"
    /\ Len(top_10_limitations) = TopN
    /\ \E k \in AllCodes \ TopSet : \E t \in TopSet :
          Get(limitation_counts, k) < Get(limitation_counts, t)

\* C16: of two codes with the same count the one first encountered by the
\* scan is ranked ahead of the other, so with a tie at the N-th place the
\* earlier-encountered code is the one selected.
C16_TiesByFirstEncounter ==
    pc # "count" =>
        \A m, n \in 1..Len(limitation_counts) :
            (m < n /\ limitation_counts[m][2] = limitation_counts[n][2]) =>
                LET first  == limitation_counts[m][1]
                    second == limitation_counts[n][1]
                IN  second \in TopSet =>
                        /\ first \in TopSet
                        /\ PlaceIn(top_10_limitations, first)
                              < PlaceIn(top_10_limitations, second)

\* C17: the count, the selection and the aggregation have no fatal path:
\* from every record set the computation never errs and reaches its final
\* state with a matrix and percentages over the top-N codes.
C17_NoFatalPath ==
    /\ [](pc # "error")
    /\ <>(/\ pc = "done"
          /\ DOMAIN cooccurrence_matrix = TopSet \X TopSet
          /\ DOMAIN cooccurrence_pct = TopSet \X TopSet)

\* C17 witness: the final state of the empty record set
C17_Witness ==
    /\ pc = "done"
    /\ Len(df) = 0
    /\ cooccurrence_pct = << >>

\* C18: a record whose category fields are all missing changes no frequency
\* count, not the top-N list and no matrix count: they are those of the
\* record set without such records; only the denominator of the
\* percentages counts the record.
C18_AllMissingRecordChangesNothing ==
    LET rest == WithoutMissing(df)
    IN  /\ pc # "count" => limitation_counts = CountsOf(rest)
        /\ pc \in {"scan", "done"} => top_10_limitations \in TopListsOf(rest)
        /\ pc = "done" =>
              /\ cooccurrence_matrix = MatrixOf(rest, top_10_limitations)
              /\ \A cell \in DOMAIN cooccurrence_pct :
                    /\ cooccurrence_pct[cell].den = Len(df)
                    /\ cooccurrence_pct[cell].num
                          = 100 * MatrixOf(rest, top_10_limitations)[cell]

\* C18 witness: the final state of a record set with an all-missing record
\* next to a record that raised the matrix
C18_Witness ==
    /\ pc = "done"
    /\ Len(WithoutMissing(df)) < Len(df)
    /\ \E cell \in DOMAIN cooccurrence_pct :
          cooccurrence_pct[cell].num > 0 /\ cooccurrence_pct[cell].den = Len(df)

\* C19: codes outside the top-N set never affect the matrix: what a field
\* adds to a cell is decided by the top-N codes among its tokens alone,
\* and every increment targets a cell whose row and column are top-N
\* codes.
C19_OnlyTopCodesCount ==
    /\ pc # "error"
    /\ DOMAIN cooccurrence_matrix = TopSet \X TopSet
    /\ \A r \in 1..Len(df) : \A c \in 1..NumCols :
          Scanned(r, c) =>
              LET in_top(k) == k \in TopSet
                  toptoks == Range(SelectSeq(counted[<<r, c>>], in_top))
              IN  /\ DOMAIN added[<<r, c>>] = TopSet \X TopSet
                  /\ \A i, j \in TopSet :
                        FieldAdded(r, c, <<i, j>>) =
                            IF i # j /\ i \in toptoks /\ j \in toptoks
                            THEN 1 ELSE 0

\* C19 witness: a scanned field that holds a code outside the top-N list
\* next to two top-N codes whose cell it raised
C19_Witness ==
    \E r \in 1..Len(df) : \E c \in 1..NumCols :
        /\ Scanned(r, c)
        /\ Range(counted[<<r, c>>]) \ TopSet # {}
        /\ \E i, j \in TopSet : FieldAdded(r, c, <<i, j>>) = 1

\* C20: every co-occurrence count is at most the record count, so every
\* cell of the percentage matrix lies between 0 and 100.
C20_PercentageWithin100 ==
    pc = "done" =>
        \A cell \in DOMAIN cooccurrence_pct :
            /\ cooccurrence_matrix[cell] <= Len(df)
            /\ 0 <= cooccurrence_pct[cell].num
            /\ cooccurrence_pct[cell].num <= 100 * cooccurrence_pct[cell].den

\* data frame d with its records in the order rows and the category fields
\* of every record in the order cols
Reordered(d, rows, cols) ==
    [r \in 1..Len(d) |-> [c \in 1..NumCols |-> d[rows[r]][cols[c]]]]

\* C24: for a fixed top-N list the final matrix does not depend on the
\* order in which records and category fields are processed: every
\* permutation of the records and of the field order yields the same
\* matrix.
C24_OrderIndependent ==
    pc = "done" =>
        \A rows \in Permutations(1..Len(df)) : \A cols \in Permutations(1..NumCols) :
            MatrixOf(Reordered(df, rows, cols), top_10_limitations)
                = cooccurrence_matrix

\* C24 witness: the final state of two records that differ, with a raised
\* cell
C24_Witness ==
    /\ pc = "done"
    /\ Len(df) >= 2
    /\ df[1] # df[2]
    /\ df[1][1] # df[1][2]
    /\ \E cell \in DOMAIN cooccurrence_matrix : cooccurrence_matrix[cell] > 0

\* C25: every diagonal cell is 0 in every reachable state, all cells are
\* non-negative, and no cell ever decreases.
C25_DiagonalZeroCellsGrow ==
    /\ [](\A cell \in DOMAIN cooccurrence_matrix :
            /\ cooccurrence_matrix[cell] >= 0
            /\ cell[1] = cell[2] => cooccurrence_matrix[cell] = 0)
    /\ [][\A cell \in DOMAIN cooccurrence_matrix :
            cell \in DOMAIN cooccurrence_matrix'
            /\ cooccurrence_matrix'[cell] >= cooccurrence_matrix[cell]]_vars

\* C25 witness: a scanned field that repeats a top-N code has raised the
\* cell it shares with another code, the diagonal staying at 0
C25_Witness ==
    \E r \in 1..Len(df) : \E c \in 1..NumCols :
        /\ Scanned(r, c)
        /\ \E i, j \in TopSet :
              /\ i # j
              /\ Occurrences(counted[<<r, c>>], i) >= 2
              /\ cooccurrence_matrix[<<i, j>>] > 0
              /\ cooccurrence_matrix[<<i, i>>] = 0

\* the records of year in the 'Year of publication' column that hold the
\* limitation text in at least one category field
StudiesReporting(year, limitation) ==
    {r \in RowsWhere(Year_of_publication, year) :
        \E c \in 1..NumCols : str_contains(df[r][c], limitation)}

\* C21: for every contextual limitation and every publication year, Count
\* is the number of studies of that year that report the limitation, each
\* study counted once, so Count never exceeds Total and Percentage never
\* exceeds 100.
C21_CountIsStudiesReporting ==
    contextual_trends # << >> =>
        \A k \in DOMAIN contextual_trends.trend_data :
            LET entry == contextual_trends.trend_data[k]
            IN  /\ entry.Count
                      = Cardinality(StudiesReporting(entry.Year,
                                                     entry.Limitation))
                /\ entry.Count <= entry.Total
                /\ entry.Percentage.num <= 100 * entry.Percentage.den

\* the records of year in the 'Year' column whose category fields hold the
\* code
RecordsContaining(year, code) ==
    {r \in RowsWhere(Year, year) : code \in RecordCodes(r)}

\* C22: for every year and every top-5 code the reported value is 100 times
\* the number of that year's records containing the code in at least one
\* category field, divided by the number of that year's records, and it
\* never exceeds 100.
C22_ValueIsShareOfRecords ==
    top5_trends # << >> =>
        \A k \in DOMAIN top5_trends.trends_data :
            LET year_data == top5_trends.trends_data[k]
            IN  \A limitation \in DOMAIN year_data.Percentage :
                  /\ year_data.Percentage[limitation]
                        = Pct(Cardinality(RecordsContaining(year_data.Year,
                                                            limitation)),
                              Cardinality(RowsWhere(Year, year_data.Year)))
                  /\ year_data.Percentage[limitation].num
                        <= 100 * year_data.Percentage[limitation].den

\* the bounds of one comparison entry against its group of records
GroupBounds(entry, group) ==
    /\ entry.Methodological_Count <= entry.Total_Count
    /\ entry.Contextual_Count <= entry.Total_Count
    /\ entry.Total_Count
          <= entry.Methodological_Count + entry.Contextual_Count
    /\ entry.Total_Count <= Cardinality(group)
    /\ \A r \in group :
          r \in entry.total_rows
              <=> (r \in entry.methodological_rows
                      \/ r \in entry.contextual_rows)

\* C23: for every group (Facility, Community, North, South) neither the
\* methodological nor the contextual count exceeds the total count, the total
\* count exceeds neither their sum nor the number of records of the group,
\* and a record is counted in the total exactly when it is counted as
\* methodological or as contextual.
C23_GroupCountsBounded ==
    /\ facility_community # << >> =>
          /\ GroupBounds(facility_community[1],
                         RowsWhere(Study_setting, "Facility-based"))
          /\ GroupBounds(facility_community[2],
                         RowsWhere(Study_setting, "Community-based"))
    /\ regional # << >> =>
          /\ GroupBounds(regional[1], RowsWhere(Region_clean, "North"))
          /\ GroupBounds(regional[2], RowsWhere(Region_clean, "South"))

\* C23 witness: a setting group with a record counted as methodological and
\* as contextual, and a region group with a record that is not counted
C23_Witness ==
    /\ facility_community # << >>
    /\ regional # << >>
    /\ \E n \in 1..2 :
          /\ facility_community[n].Total_Count >= 1
          /\ facility_community[n].Total_Count
                < facility_community[n].Methodological_Count
                    + facility_community[n].Contextual_Count
    /\ \E n \in 1..2 :
          /\ regional[n].Total_Count >= 1
          /\ regional[n].Total_Count
                < Cardinality(RowsWhere(Region_clean, regional[n].Setting))

\* the counting loops of the co-occurrence analysis are through
CountingDone == pc \in {"scan", "done"} \/ (pc = "count" /\ col > NumCols)

\* C26: run in the order of main, the code frequency counts of
\* analyze_specific_limitations, analyze_top5_limitations_trends and
\* analyze_limitation_cooccurrence agree, no analysis changes the records or
\* category fields a later one reads, and the top-5 list is the first
\* entries of the top-10 list.
C26_CountsAgree ==
    /\ [](/\ CountingDone =>
               /\ limitation_counts = specific_limitations.limitation_counts
               /\ limitation_counts = top5_trends.limitation_counts
          /\ pc \in {"scan", "done"} =>
               top_5_limitations
                  = SubSeq(top_10_limitations, 1,
                           Min(Top5N, Len(top_10_limitations))))
    /\ [][df' = df]_vars

\* C26 witness: main is through with records of three codes of equal count,
\* one record without a year, a top-5 list and a longer or equal top-10 list
C26_Witness ==
    /\ pc = "done"
    /\ specific_limitations # << >>
    /\ \E r \in 1..Len(df) : Year_of_publication[r] = NoYear
    /\ \E r \in 1..Len(df) : Year[r] # NoYear
    /\ Len(top_5_limitations) >= 2
    /\ Len(top_10_limitations) >= 3
    /\ \E m, n \in 1..Len(limitation_counts) :
          m # n /\ limitation_counts[m][2] = limitation_counts[n][2]

====
